---- MODULE Spec2Model ----
(***************************************************************************)
(* SafeVault: the vault and user-management routes, the validation chains  *)
(* and the note sanitizer, as a state machine over the two tables.         *)
(*                                                                         *)
(* A string is a sequence of one-character strings, so that the regular    *)
(* expressions of the source can be followed character by character.       *)
(***************************************************************************)
EXTENDS Integers, Sequences, FiniteSets, TLC

VARIABLES users, items, nextItemId, tokens, res, arg, out, now

vars == <<users, items, nextItemId, tokens, res, arg, out, now>>

-----------------------------------------------------------------------------
(* Characters *)

LowerCase == <<"a","b","c","d","e","f","g","h","i","j","k","l","m",
               "n","o","p","q","r","s","t","u","v","w","x","y","z">>

UpperCase == <<"A","B","C","D","E","F","G","H","I","J","K","L","M",
               "N","O","P","Q","R","S","T","U","V","W","X","Y","Z">>

Digits == <<"0","1","2","3","4","5","6","7","8","9">>

Range(f) == { f[i] : i \in DOMAIN f }

\* the /i flag and ILIKE: letters compare by their lower-case form
ToLower(c) ==
  IF c \in Range(UpperCase)
    THEN LowerCase[CHOOSE i \in 1..26 : UpperCase[i] = c]
    ELSE c

\* \w of a JavaScript regular expression: [A-Za-z0-9_]
IsWord(c) == c \in Range(LowerCase) \cup Range(UpperCase) \cup Range(Digits) \cup {"_"}

\* \s of a JavaScript regular expression (the white space the model draws from)
IsSpace(c) == c \in {" ", "\t", "\n"}

\* s has the lower-case literal lit at index i, compared case-insensitively
StartsWithCI(s, i, lit) ==
  /\ i >= 1
  /\ i + Len(lit) - 1 <= Len(s)
  /\ \A k \in 1..Len(lit) : ToLower(s[i + k - 1]) = lit[k]

\* s has the literal lit at index i, compared exactly
StartsWith(s, i, lit) ==
  /\ i >= 1
  /\ i + Len(lit) - 1 <= Len(s)
  /\ \A k \in 1..Len(lit) : s[i + k - 1] = lit[k]

Contains(s, lit) == \E i \in 1..Len(s) : StartsWith(s, i, lit)

ContainsCI(s, lit) == \E i \in 1..Len(s) : StartsWithCI(s, i, lit)

-----------------------------------------------------------------------------
(* utils/security.js *)

Amp == <<"&","a","m","p",";">>
Lt == <<"&","l","t",";">>
Gt == <<"&","g","t",";">>
Quot == <<"&","q","u","o","t",";">>
Apos == <<"&","#","0","3","9",";">>

\* the map of escapeHtml: one character to its entity
EscapeChar(c) ==
  CASE c = "&" -> Amp
    [] c = "<" -> Lt
    [] c = ">" -> Gt
    [] c = "\"" -> Quot
    [] c = "'" -> Apos
    [] OTHER -> <<c>>

RECURSIVE escapeFrom(_, _)
escapeFrom(text, i) ==
  IF i > Len(text) THEN <<>> ELSE EscapeChar(text[i]) \o escapeFrom(text, i + 1)

\* text.replace(/[&<>"']/g, (m) => map[m])
escapeHtml(text) == escapeFrom(text, 1)

ScriptOpen == <<"<","s","c","r","i","p","t">>
ScriptClose == <<"<","/","s","c","r","i","p","t",">">>
JsScheme == <<"j","a","v","a","s","c","r","i","p","t",":">>

\* the indices at or after i where the closing tag starts
ClosesFrom(s, i) == { j \in i..Len(s) : StartsWithCI(s, j, ScriptClose) }

Min(S) == CHOOSE x \in S : \A y \in S : x <= y

\* the script pattern without its i flag: only lower-case tags match
MatchScriptCaseSensitive(s, i) ==
  LET closes == { j \in (i + 7)..Len(s) : StartsWith(s, j, ScriptClose) } IN
  IF /\ StartsWith(s, i, ScriptOpen)
     /\ (i + 7 > Len(s) \/ ~IsWord(s[i + 7]))
     /\ closes # {}
    THEN Min(closes) + Len(ScriptClose)
    ELSE 0

\* /<script\b[^<]*(?:(?!<\/script>)<[^<]*)*<\/script>/i tried at index i:
\* the index after the match, 0 when it does not match there.  After
\* "<script" and the word boundary, [^<]* and the group consume everything
\* up to the first "<" that starts the closing tag, which must follow.
MatchScript(s, i) ==
  IF /\ StartsWithCI(s, i, ScriptOpen)
     /\ (i + 7 > Len(s) \/ ~IsWord(s[i + 7]))
     /\ ClosesFrom(s, i + 7) # {}
    THEN Min(ClosesFrom(s, i + 7)) + Len(ScriptClose)
    ELSE 0

RECURSIVE SkipWhile(_, _, _)
\* the first index at or after i whose character is not in the class
\* (kind "w": \w, "s": \s, "q": [^"'])
SkipWhile(s, i, kind) ==
  IF i > Len(s) THEN i
  ELSE IF \/ kind = "w" /\ IsWord(s[i])
          \/ kind = "s" /\ IsSpace(s[i])
          \/ kind = "q" /\ s[i] \notin {"\"", "'"}
    THEN SkipWhile(s, i + 1, kind)
    ELSE i

\* /on\w+\s*=\s*["'][^"']*["']/i tried at index i: the index after the
\* match, 0 when it does not match there
MatchOn(s, i) ==
  IF ~StartsWithCI(s, i, <<"o","n">>) THEN 0
  ELSE LET w == SkipWhile(s, i + 2, "w")
           e == SkipWhile(s, w, "s")
           v == SkipWhile(s, e + 1, "s")
           q == SkipWhile(s, v + 1, "q")
       IN  IF /\ w > i + 2
              /\ e <= Len(s) /\ s[e] = "="
              /\ v <= Len(s) /\ s[v] \in {"\"", "'"}
              /\ q <= Len(s)
             THEN q + 1
             ELSE 0

\* /javascript:/i tried at index i
MatchJs(s, i) == IF StartsWithCI(s, i, JsScheme) THEN i + Len(JsScheme) ELSE 0

\* the three patterns of sanitizeInput, by the order of the replace calls
Match(s, i, pat) ==
  CASE pat = 1 -> MatchScript(s, i)
    [] pat = 2 -> MatchOn(s, i)
    [] pat = 3 -> MatchJs(s, i)

RECURSIVE removeFrom(_, _, _)
\* String.prototype.replace(/pat/g, ''): one left-to-right pass, the scan
\* resumes after each match
removeFrom(s, i, pat) ==
  IF i > Len(s) THEN <<>>
  ELSE IF Match(s, i, pat) > 0
    THEN removeFrom(s, Match(s, i, pat), pat)
    ELSE <<s[i]>> \o removeFrom(s, i + 1, pat)

\* input.replace(script).replace(on-handler).replace(javascript:)
sanitizeInput(input) == removeFrom(removeFrom(removeFrom(input, 1, 1), 1, 2), 1, 3)

\* if (!note) return ''; escapeHtml(sanitizeInput(note))
sanitizeNote(note) == IF note = <<>> THEN <<>> ELSE escapeHtml(sanitizeInput(note))

-----------------------------------------------------------------------------
(* Bounds and the inputs the requests draw from *)

\* vault items ever created (the serial of vault_items stops here)
MaxItems == 2

Roles == {"admin", "user", "auditor"}

AdminEmail == "admin@safevault.com"
TestUserEmail == "user@test.com"

\* c repeated n times
Rep(c, n) == [i \in 1..n |-> c]

\* path segments for :id: the decimal ids, and segments that are not a
\* non-negative integer in their entirety
NumSegs == { <<Digits[i + 1]>> : i \in 1..MaxItems }
BadSegs == { <<"x">>, <<"1", ";", "x">>, <<"-", "1">> }

-----------------------------------------------------------------------------
(* middleware/validation.js, and the string functions the handlers call *)

NameMax == 255
NoteMax == 5000
QueryMax == 100

RECURSIVE trimLeft(_)
trimLeft(s) == IF s # <<>> /\ IsSpace(Head(s)) THEN trimLeft(Tail(s)) ELSE s

RECURSIVE trimRight(_)
trimRight(s) ==
  IF s # <<>> /\ IsSpace(s[Len(s)]) THEN trimRight(SubSeq(s, 1, Len(s) - 1)) ELSE s

\* .trim() of the validation chain, and String.prototype.trim
trim(s) == trimRight(trimLeft(s))

\* .matches(/^[a-zA-Z0-9\s\-_]+$/)
NameCharsOk(s) ==
  /\ s # <<>>
  /\ \A i \in 1..Len(s) : IsWord(s[i]) \/ IsSpace(s[i]) \/ s[i] = "-"

\* validateVaultItem on a body [name, hasNote, note]: name is trimmed, then
\* its length and characters are checked; note, when present, is trimmed and
\* its length checked.  A missing name validates as the empty string.
VaultItemValid(body) ==
  /\ Len(trim(body.name)) >= 1
  /\ Len(trim(body.name)) <= NameMax
  /\ NameCharsOk(trim(body.name))
  /\ body.hasNote => Len(trim(body.note)) <= NoteMax

\* the chain without .trim() on note: the handler sees the note as sent
VaultItemSanitizedNoTrim(body) ==
  [name |-> trim(body.name),
   hasNote |-> body.hasNote,
   note |-> IF body.hasNote THEN body.note ELSE <<>>]

\* the body as the handler sees it: the chain's sanitizers write the
\* trimmed values back into req.body
VaultItemSanitized(body) ==
  [name |-> trim(body.name),
   hasNote |-> body.hasNote,
   note |-> IF body.hasNote THEN trim(body.note) ELSE <<>>]

\* validateSearch on a body [hasQuery, query]
SearchValid(body) == body.hasQuery => Len(trim(body.query)) <= QueryMax

\* validateUserUpdate on a body [hasEmail, email, hasRole, role, roleIsArray,
\* roleItems]; isEmail is the library's test, here membership in the addresses
\* the model draws.  A JSON body may carry an array under role: a standard
\* validator is run on each element of an array value, and the value itself
\* is left as it was.
ValidEmails == {AdminEmail, TestUserEmail, "new@test.com", "New@Test.com", "nobody@test.com"}
UserUpdateValid(body) ==
  /\ body.hasEmail => body.email \in ValidEmails
  /\ body.hasRole =>
       IF body.roleIsArray
         THEN \A k \in 1..Len(body.roleItems) : body.roleItems[k] \in Roles
         ELSE body.role \in Roles

\* parseInt(str, 10): leading white space is skipped, then an optional sign,
\* then the longest run of digits; NaN when there is no digit.  Whatever
\* follows the digits is ignored.
RECURSIVE digitsValue(_, _, _)
digitsValue(s, i, acc) ==
  IF i <= Len(s) /\ s[i] \in Range(Digits)
    THEN digitsValue(s, i + 1, 10 * acc + (CHOOSE d \in 0..9 : Digits[d + 1] = s[i]))
    ELSE acc

parseInt(str) ==
  LET t == trimLeft(str)
      neg == t # <<>> /\ Head(t) = "-"
      d == IF t # <<>> /\ Head(t) \in {"-", "+"} THEN Tail(t) ELSE t
  IN  IF d = <<>> \/ Head(d) \notin Range(Digits)
        THEN [nan |-> TRUE, val |-> 0]
        ELSE [nan |-> FALSE,
              val |-> IF neg THEN 0 - digitsValue(d, 1, 0) ELSE digitsValue(d, 1, 0)]

RECURSIVE Like(_, _, _, _)
\* text ILIKE pattern from positions i and j: % is any run, _ any one
\* character, backslash takes the next pattern character literally
Like(t, i, p, j) ==
  IF j > Len(p) THEN i > Len(t)
  ELSE IF p[j] = "%"
    THEN Like(t, i, p, j + 1) \/ (i <= Len(t) /\ Like(t, i + 1, p, j))
  ELSE IF p[j] = "_"
    THEN i <= Len(t) /\ Like(t, i + 1, p, j + 1)
  ELSE IF p[j] = "\\" /\ j < Len(p)
    THEN i <= Len(t) /\ ToLower(t[i]) = ToLower(p[j + 1]) /\ Like(t, i + 1, p, j + 2)
  ELSE i <= Len(t) /\ ToLower(t[i]) = ToLower(p[j]) /\ Like(t, i + 1, p, j + 1)

ILike(text, pattern) == Like(text, 1, pattern, 1)

-----------------------------------------------------------------------------
(* middleware/auth.js: the authentication gate and the role check *)

NoUser == [id |-> 0, role |-> "none"]

\* what a request presents: no token, a token whose signature or expiry
\* fails verification (whatever its payload claims), or an issued token
NoToken == [kind |-> "none", id |-> 0, role |-> "none"]
BadTokens == { [kind |-> "bad", id |-> 2, role |-> "admin"] }
GoodTokens == { [kind |-> "good", id |-> t.id, role |-> t.role] : t \in tokens }
Creds == {NoToken} \cup BadTokens \cup GoodTokens

\* requireAuth that takes the id from the token and looks the role up in the
\* users table
requireAuthLoadsRole(cred) ==
  CASE cred.kind = "none" ->
         [ok |-> FALSE, auth |-> "none", status |-> 401,
          error |-> "Authentication required", user |-> NoUser]
    [] cred.kind = "bad" \/ cred.id \notin DOMAIN users ->
         [ok |-> FALSE, auth |-> "bad", status |-> 401,
          error |-> "Invalid or expired token", user |-> NoUser]
    [] OTHER ->
         [ok |-> TRUE, auth |-> "good", status |-> 200, error |-> "",
          user |-> [id |-> cred.id, role |-> users[cred.id].role]]

\* requireAuth: the resolved principal {id, role} of a verified token, or
\* the 401 outcome
requireAuth(cred) ==
  CASE cred.kind = "none" ->
         [ok |-> FALSE, auth |-> "none", status |-> 401,
          error |-> "Authentication required", user |-> NoUser]
    [] cred.kind = "bad" ->
         [ok |-> FALSE, auth |-> "bad", status |-> 401,
          error |-> "Invalid or expired token", user |-> NoUser]
    [] OTHER ->
         [ok |-> TRUE, auth |-> "good", status |-> 200, error |-> "",
          user |-> [id |-> cred.id, role |-> cred.role]]

\* requireRole(expected): permitted iff req.user.role == expected
requireRole(user, expected) == user.role = expected

-----------------------------------------------------------------------------
(* The response of the last request, and the rows a query returns *)

\* auth is what the request presented ("none", "bad", "good"), user the
\* principal requireAuth resolved, seg the :id segment the handler parsed
Respond(route, status, error, user, seg, rows) ==
  [route |-> route, auth |-> "good", status |-> status, error |-> error,
   user |-> user, seg |-> seg, rows |-> rows]

\* a request stopped by requireAuth: no handler runs
Unauthorized(route, a) ==
  /\ res' = [Respond(route, a.status, a.error, NoUser, <<>>, <<>>) EXCEPT !.auth = a.auth]
  /\ UNCHANGED <<users, items, nextItemId, tokens, arg, out, now>>

\* a request stopped by requireRole
Forbidden(route, user) ==
  /\ res' = Respond(route, 403, "Access denied", user, <<>>, <<>>)
  /\ UNCHANGED <<users, items, nextItemId, tokens, arg, out, now>>

Max(S) == CHOOSE x \in S : \A y \in S : x >= y

RECURSIVE Desc(_)
\* ORDER BY created_at DESC: the serial ids, latest first
Desc(S) == IF S = {} THEN <<>> ELSE <<Max(S)>> \o Desc(S \ {Max(S)})

\* SELECT id, name, note FROM vault_items: the columns of one row
ItemRow(i) == [id |-> i, name |-> items[i].name, note |-> items[i].note]

ItemRows(S) == [k \in 1..Cardinality(S) |-> ItemRow(Desc(S)[k])]

\* SELECT id, email, role FROM users
UserRow(u) == [id |-> u, email |-> users[u].email, role |-> users[u].role]

UserRows(S) == [k \in 1..Cardinality(S) |-> UserRow(Desc(S)[k])]

OwnedBy(uid) == { i \in DOMAIN items : items[i].owner_id = uid }

-----------------------------------------------------------------------------
(* routes/vault.js: every route is behind router.use(requireAuth) *)

\* GET /api/vault mounted without router.use(requireAuth): the handler runs
\* for whatever the request presents
VaultListNoGate(cred) ==
  LET a == requireAuth(cred) IN
  /\ res' = [Respond("GET /api/vault", 200, "", a.user, <<>>,
                      ItemRows(OwnedBy(a.user.id))) EXCEPT !.auth = a.auth]
  /\ UNCHANGED <<users, items, nextItemId, tokens, arg, out, now>>

\* GET /api/vault
VaultList(cred) ==
  LET a == requireAuth(cred) IN
  IF ~a.ok THEN Unauthorized("GET /api/vault", a)
  ELSE /\ res' = Respond("GET /api/vault", 200, "", a.user, <<>>,
                         ItemRows(OwnedBy(a.user.id)))
       /\ UNCHANGED <<users, items, nextItemId, tokens, arg, out, now>>

\* GET /api/vault/all without requireRole('admin')
VaultAllNoRole(cred) ==
  LET a == requireAuth(cred) IN
  IF ~a.ok THEN Unauthorized("GET /api/vault/all", a)
  ELSE /\ res' = Respond("GET /api/vault/all", 200, "", a.user, <<>>,
                         ItemRows({ i \in DOMAIN items : items[i].owner_id \in DOMAIN users }))
       /\ UNCHANGED <<users, items, nextItemId, tokens, arg, out, now>>

\* GET /api/vault/all, behind requireRole('admin'); the JOIN keeps the items
\* whose owner row exists
VaultAll(cred) ==
  LET a == requireAuth(cred) IN
  IF ~a.ok THEN Unauthorized("GET /api/vault/all", a)
  ELSE IF ~requireRole(a.user, "admin") THEN Forbidden("GET /api/vault/all", a.user)
  ELSE /\ res' = Respond("GET /api/vault/all", 200, "", a.user, <<>>,
                         ItemRows({ i \in DOMAIN items : items[i].owner_id \in DOMAIN users }))
       /\ UNCHANGED <<users, items, nextItemId, tokens, arg, out, now>>

\* the search query without its owner_id = $1 conjunct
SearchHitsAnyOwner(uid, pattern) ==
  { i \in DOMAIN items : ILike(items[i].name, pattern) \/ ILike(items[i].note, pattern) }

\* WHERE owner_id = $1 AND (name ILIKE $2 OR note ILIKE $2)
SearchHits(uid, pattern) ==
  { i \in OwnedBy(uid) : ILike(items[i].name, pattern) \/ ILike(items[i].note, pattern) }

\* the handler of POST /api/vault/search for the principal user: query is
\* req.body.query after the chain trimmed it
VaultSearchResponse(user, body) ==
  LET route == "POST /api/vault/search"
      query == IF body.hasQuery THEN trim(body.query) ELSE <<>>
  IN
  IF ~SearchValid(body)
    THEN Respond(route, 400, "Validation failed", user, <<>>, <<>>)
  ELSE IF query = <<>> \/ trim(query) = <<>>
    THEN Respond(route, 200, "", user, <<>>, <<>>)
  ELSE Respond(route, 200, "", user, <<>>,
               ItemRows(SearchHits(user.id, <<"%">> \o trim(query) \o <<"%">>)))

\* POST /api/vault/search, behind validateSearch
VaultSearch(cred, body) ==
  LET a == requireAuth(cred) IN
  IF ~a.ok THEN Unauthorized("POST /api/vault/search", a)
  ELSE /\ res' = VaultSearchResponse(a.user, body)
       /\ UNCHANGED <<users, items, nextItemId, tokens, arg, out, now>>

\* GET /api/vault/:id selecting by id alone
VaultGetAnyOwner(cred, seg) ==
  LET a == requireAuth(cred)
      route == "GET /api/vault/:id"
      itemId == parseInt(seg)
      found == { i \in DOMAIN items : i = itemId.val }
  IN
  IF ~a.ok THEN Unauthorized(route, a)
  ELSE /\ res' =
            IF itemId.nan
              THEN Respond(route, 400, "Invalid item ID", a.user, seg, <<>>)
            ELSE IF found = {}
              THEN Respond(route, 404, "Vault item not found", a.user, seg, <<>>)
            ELSE Respond(route, 200, "", a.user, seg, ItemRows(found))
       /\ UNCHANGED <<users, items, nextItemId, tokens, arg, out, now>>

\* GET /api/vault/:id that remembers the ids it has seen created and does
\* not ask the table again: an id below the serial is answered 200 even when
\* its row is gone
VaultGetRemembers(cred, seg) ==
  LET a == requireAuth(cred)
      route == "GET /api/vault/:id"
      itemId == parseInt(seg)
      found == { i \in DOMAIN items : i = itemId.val /\ items[i].owner_id = a.user.id }
  IN
  IF ~a.ok THEN Unauthorized(route, a)
  ELSE /\ res' =
            IF itemId.nan
              THEN Respond(route, 400, "Invalid item ID", a.user, seg, <<>>)
            ELSE IF found = {} /\ itemId.val \in DOMAIN items
              THEN Respond(route, 404, "Vault item not found", a.user, seg, <<>>)
            ELSE IF found = {} /\ ~(itemId.val \in 1..(nextItemId - 1))
              THEN Respond(route, 404, "Vault item not found", a.user, seg, <<>>)
            ELSE Respond(route, 200, "", a.user, seg, ItemRows(found))
       /\ UNCHANGED <<users, items, nextItemId, tokens, arg, out, now>>

\* GET /api/vault/:id
VaultGet(cred, seg) ==
  LET a == requireAuth(cred)
      route == "GET /api/vault/:id"
      itemId == parseInt(seg)
      found == { i \in DOMAIN items : i = itemId.val /\ items[i].owner_id = a.user.id }
  IN
  IF ~a.ok THEN Unauthorized(route, a)
  ELSE /\ res' =
            IF itemId.nan
              THEN Respond(route, 400, "Invalid item ID", a.user, seg, <<>>)
            ELSE IF found = {}
              THEN Respond(route, 404, "Vault item not found", a.user, seg, <<>>)
            ELSE Respond(route, 200, "", a.user, seg, ItemRows(found))
       /\ UNCHANGED <<users, items, nextItemId, tokens, arg, out, now>>

\* POST /api/vault on a vault_items table whose owner_id does not reference
\* users(id): the insert succeeds for any owner_id
VaultCreateNoReference(cred, body) ==
  LET a == requireAuth(cred)
      route == "POST /api/vault"
      b == VaultItemSanitized(body)
      sanitizedNote == sanitizeNote(b.note)
      id == nextItemId
  IN
  IF ~a.ok THEN Unauthorized(route, a)
  ELSE IF ~VaultItemValid(body)
    THEN /\ res' = Respond(route, 400, "Validation failed", a.user, <<>>, <<>>)
         /\ UNCHANGED <<users, items, nextItemId, tokens, arg, out, now>>
  ELSE /\ nextItemId <= MaxItems
       /\ nextItemId' = nextItemId + 1
       /\ items' = [i \in DOMAIN items \cup {id} |->
                     IF i = id
                       THEN [owner_id |-> a.user.id, name |-> trim(b.name),
                             note |-> sanitizedNote,
                             submitted |-> IF body.hasNote THEN body.note ELSE <<>>]
                       ELSE items[i]]
       /\ res' = [Respond(route, 201, "", a.user, <<>>, <<>>) EXCEPT
                    !.rows = <<[id |-> id, name |-> trim(b.name), note |-> sanitizedNote]>>]
       /\ UNCHANGED <<users, tokens, arg, out, now>>

\* POST /api/vault, behind validateVaultItem.  owner_id REFERENCES users(id):
\* an insert for a principal with no users row fails, after the serial was
\* drawn.  The field submitted records the note of the request as sent.
VaultCreate(cred, body) ==
  LET a == requireAuth(cred)
      route == "POST /api/vault"
      b == VaultItemSanitized(body)
      sanitizedNote == sanitizeNote(b.note)
      id == nextItemId
  IN
  IF ~a.ok THEN Unauthorized(route, a)
  ELSE IF ~VaultItemValid(body)
    THEN /\ res' = Respond(route, 400, "Validation failed", a.user, <<>>, <<>>)
         /\ UNCHANGED <<users, items, nextItemId, tokens, arg, out, now>>
  ELSE /\ nextItemId <= MaxItems
       /\ nextItemId' = nextItemId + 1
       /\ IF a.user.id \in DOMAIN users
            THEN /\ items' = [i \in DOMAIN items \cup {id} |->
                               IF i = id
                                 THEN [owner_id |-> a.user.id, name |-> trim(b.name),
                                       note |-> sanitizedNote,
                                       submitted |-> IF body.hasNote THEN body.note ELSE <<>>]
                                 ELSE items[i]]
                 /\ res' = [Respond(route, 201, "", a.user, <<>>, <<>>) EXCEPT
                              !.rows = <<[id |-> id, name |-> trim(b.name),
                                          note |-> sanitizedNote]>>]
            ELSE /\ items' = items
                 /\ res' = Respond(route, 500, "Internal server error", a.user, <<>>, <<>>)
       /\ UNCHANGED <<users, tokens, arg, out, now>>

\* PUT /api/vault/:id with the caller's id written to owner_id instead of
\* tested in WHERE: UPDATE ... SET owner_id = $4 WHERE id = $3
VaultUpdateTakesOwnership(cred, seg, body) ==
  LET a == requireAuth(cred)
      route == "PUT /api/vault/:id"
      itemId == parseInt(seg)
      b == VaultItemSanitized(body)
      sanitizedNote == sanitizeNote(b.note)
      hit == { i \in DOMAIN items : i = itemId.val }
  IN
  IF ~a.ok THEN Unauthorized(route, a)
  ELSE IF ~VaultItemValid(body)
    THEN /\ res' = Respond(route, 400, "Validation failed", a.user, <<>>, <<>>)
         /\ UNCHANGED <<users, items, nextItemId, tokens, arg, out, now>>
  ELSE IF itemId.nan
    THEN /\ res' = Respond(route, 400, "Invalid item ID", a.user, seg, <<>>)
         /\ UNCHANGED <<users, items, nextItemId, tokens, arg, out, now>>
  ELSE IF hit = {}
    THEN /\ res' = Respond(route, 404, "Vault item not found", a.user, seg, <<>>)
         /\ UNCHANGED <<users, items, nextItemId, tokens, arg, out, now>>
  ELSE /\ items' = [i \in DOMAIN items |->
                     IF i \in hit
                       THEN [items[i] EXCEPT !.owner_id = a.user.id,
                                             !.name = trim(b.name), !.note = sanitizedNote,
                                             !.submitted = IF body.hasNote THEN body.note
                                                           ELSE <<>>]
                       ELSE items[i]]
       /\ res' = Respond(route, 200, "", a.user, seg,
                         <<[id |-> itemId.val, name |-> trim(b.name), note |-> sanitizedNote]>>)
       /\ UNCHANGED <<users, nextItemId, tokens, arg, out, now>>

\* PUT /api/vault/:id, behind validateVaultItem
VaultUpdate(cred, seg, body) ==
  LET a == requireAuth(cred)
      route == "PUT /api/vault/:id"
      itemId == parseInt(seg)
      b == VaultItemSanitized(body)
      sanitizedNote == sanitizeNote(b.note)
      hit == { i \in DOMAIN items : i = itemId.val /\ items[i].owner_id = a.user.id }
  IN
  IF ~a.ok THEN Unauthorized(route, a)
  ELSE IF ~VaultItemValid(body)
    THEN /\ res' = Respond(route, 400, "Validation failed", a.user, <<>>, <<>>)
         /\ UNCHANGED <<users, items, nextItemId, tokens, arg, out, now>>
  ELSE IF itemId.nan
    THEN /\ res' = Respond(route, 400, "Invalid item ID", a.user, seg, <<>>)
         /\ UNCHANGED <<users, items, nextItemId, tokens, arg, out, now>>
  ELSE IF hit = {}
    THEN /\ res' = Respond(route, 404, "Vault item not found", a.user, seg, <<>>)
         /\ UNCHANGED <<users, items, nextItemId, tokens, arg, out, now>>
  ELSE /\ items' = [i \in DOMAIN items |->
                     IF i \in hit
                       THEN [items[i] EXCEPT !.name = trim(b.name), !.note = sanitizedNote,
                                             !.submitted = IF body.hasNote THEN body.note
                                                           ELSE <<>>]
                       ELSE items[i]]
       /\ res' = Respond(route, 200, "", a.user, seg,
                         <<[id |-> itemId.val, name |-> trim(b.name), note |-> sanitizedNote]>>)
       /\ UNCHANGED <<users, nextItemId, tokens, arg, out, now>>

\* DELETE /api/vault/:id without the admin branch: everyone deletes by id
\* and owner
VaultDeleteOwnerOnly(cred, seg) ==
  LET a == requireAuth(cred)
      route == "DELETE /api/vault/:id"
      itemId == parseInt(seg)
      hit == { i \in DOMAIN items : i = itemId.val /\ items[i].owner_id = a.user.id }
  IN
  IF ~a.ok THEN Unauthorized(route, a)
  ELSE IF itemId.nan
    THEN /\ res' = Respond(route, 400, "Invalid item ID", a.user, seg, <<>>)
         /\ UNCHANGED <<users, items, nextItemId, tokens, arg, out, now>>
  ELSE IF hit = {}
    THEN /\ res' = Respond(route, 404, "Vault item not found", a.user, seg, <<>>)
         /\ UNCHANGED <<users, items, nextItemId, tokens, arg, out, now>>
  ELSE /\ items' = [i \in DOMAIN items \ hit |-> items[i]]
       /\ res' = Respond(route, 200, "", a.user, seg, <<>>)
       /\ UNCHANGED <<users, nextItemId, tokens, arg, out, now>>

\* DELETE /api/vault/:id that deletes by id alone for everyone and tests the
\* owner of the deleted row afterwards
VaultDeleteThenTests(cred, seg) ==
  LET a == requireAuth(cred)
      route == "DELETE /api/vault/:id"
      itemId == parseInt(seg)
      hit == { i \in DOMAIN items : i = itemId.val }
      allowed == { i \in hit : a.user.role = "admin" \/ items[i].owner_id = a.user.id }
  IN
  IF ~a.ok THEN Unauthorized(route, a)
  ELSE IF itemId.nan
    THEN /\ res' = Respond(route, 400, "Invalid item ID", a.user, seg, <<>>)
         /\ UNCHANGED <<users, items, nextItemId, tokens, arg, out, now>>
  ELSE /\ items' = [i \in DOMAIN items \ hit |-> items[i]]
       /\ res' = IF allowed = {}
                   THEN Respond(route, 404, "Vault item not found", a.user, seg, <<>>)
                   ELSE Respond(route, 200, "", a.user, seg, <<>>)
       /\ UNCHANGED <<users, nextItemId, tokens, arg, out, now>>

\* DELETE /api/vault/:id: an admin deletes by id alone, anyone else by id
\* and owner
VaultDelete(cred, seg) ==
  LET a == requireAuth(cred)
      route == "DELETE /api/vault/:id"
      itemId == parseInt(seg)
      hit == IF a.user.role = "admin"
               THEN { i \in DOMAIN items : i = itemId.val }
               ELSE { i \in DOMAIN items : i = itemId.val /\ items[i].owner_id = a.user.id }
  IN
  IF ~a.ok THEN Unauthorized(route, a)
  ELSE IF itemId.nan
    THEN /\ res' = Respond(route, 400, "Invalid item ID", a.user, seg, <<>>)
         /\ UNCHANGED <<users, items, nextItemId, tokens, arg, out, now>>
  ELSE IF hit = {}
    THEN /\ res' = Respond(route, 404, "Vault item not found", a.user, seg, <<>>)
         /\ UNCHANGED <<users, items, nextItemId, tokens, arg, out, now>>
  ELSE /\ items' = [i \in DOMAIN items \ hit |-> items[i]]
       /\ res' = Respond(route, 200, "", a.user, seg, <<>>)
       /\ UNCHANGED <<users, nextItemId, tokens, arg, out, now>>

-----------------------------------------------------------------------------
(* routes/users.js: every route is behind requireAuth and requireRole('admin') *)

\* GET /api/users
UsersList(cred) ==
  LET a == requireAuth(cred) IN
  IF ~a.ok THEN Unauthorized("GET /api/users", a)
  ELSE IF ~requireRole(a.user, "admin") THEN Forbidden("GET /api/users", a.user)
  ELSE /\ res' = Respond("GET /api/users", 200, "", a.user, <<>>, UserRows(DOMAIN users))
       /\ UNCHANGED <<users, items, nextItemId, tokens, arg, out, now>>

\* GET /api/users/:id
UsersGet(cred, seg) ==
  LET a == requireAuth(cred)
      route == "GET /api/users/:id"
      userId == parseInt(seg)
  IN
  IF ~a.ok THEN Unauthorized(route, a)
  ELSE IF ~requireRole(a.user, "admin") THEN Forbidden(route, a.user)
  ELSE /\ res' =
            IF userId.nan
              THEN Respond(route, 400, "Invalid user ID", a.user, seg, <<>>)
            ELSE IF userId.val \notin DOMAIN users
              THEN Respond(route, 404, "User not found", a.user, seg, <<>>)
            ELSE Respond(route, 200, "", a.user, seg, UserRows({userId.val}))
       /\ UNCHANGED <<users, items, nextItemId, tokens, arg, out, now>>

\* .normalizeEmail() of the validation chain: the address in lower case
normalizeEmail(email) == IF email = "New@Test.com" THEN "new@test.com" ELSE email

RECURSIVE arrayElements(_, _)
arrayElements(val, i) ==
  IF i > Len(val) THEN ""
  ELSE (IF i > 1 THEN "," ELSE "") \o "\"" \o val[i] \o "\"" \o arrayElements(val, i + 1)

\* the text the driver sends for a query parameter that is an array of
\* strings: the array literal {"a","b"}
arrayString(val) == "{" \o arrayElements(val, 1) \o "}"

\* values.push(role): the parameter as the database receives it
RoleValue(body) == IF body.roleIsArray THEN arrayString(body.roleItems) ELSE body.role

\* PUT /api/users/:id on a users table whose email is not UNIQUE
UsersUpdateNoUnique(cred, seg, body) ==
  LET a == requireAuth(cred)
      route == "PUT /api/users/:id"
      userId == parseInt(seg)
      email == normalizeEmail(body.email)
      updated == [users[userId.val] EXCEPT
                    !.email = IF body.hasEmail THEN email ELSE @,
                    !.role = IF body.hasRole THEN RoleValue(body) ELSE @]
  IN
  IF ~a.ok THEN Unauthorized(route, a)
  ELSE IF ~requireRole(a.user, "admin") THEN Forbidden(route, a.user)
  ELSE IF ~UserUpdateValid(body)
    THEN /\ res' = Respond(route, 400, "Validation failed", a.user, <<>>, <<>>)
         /\ UNCHANGED <<users, items, nextItemId, tokens, arg, out, now>>
  ELSE IF userId.nan
    THEN /\ res' = Respond(route, 400, "Invalid user ID", a.user, seg, <<>>)
         /\ UNCHANGED <<users, items, nextItemId, tokens, arg, out, now>>
  ELSE IF ~body.hasEmail /\ ~body.hasRole
    THEN /\ res' = Respond(route, 400, "No fields to update", a.user, seg, <<>>)
         /\ UNCHANGED <<users, items, nextItemId, tokens, arg, out, now>>
  ELSE IF userId.val \notin DOMAIN users
    THEN /\ res' = Respond(route, 404, "User not found", a.user, seg, <<>>)
         /\ UNCHANGED <<users, items, nextItemId, tokens, arg, out, now>>
  ELSE /\ users' = [users EXCEPT ![userId.val] = updated]
       /\ res' = Respond(route, 200, "", a.user, seg,
                         <<[id |-> userId.val, email |-> updated.email, role |-> updated.role]>>)
       /\ UNCHANGED <<items, nextItemId, tokens, arg, out, now>>

\* PUT /api/users/:id without router.use(requireRole('admin'))
UsersUpdateNoRole(cred, seg, body) ==
  LET a == requireAuth(cred)
      route == "PUT /api/users/:id"
      userId == parseInt(seg)
      email == normalizeEmail(body.email)
      updated == [users[userId.val] EXCEPT
                    !.email = IF body.hasEmail THEN email ELSE @,
                    !.role = IF body.hasRole THEN RoleValue(body) ELSE @]
  IN
  IF ~a.ok THEN Unauthorized(route, a)
  ELSE IF ~UserUpdateValid(body)
    THEN /\ res' = Respond(route, 400, "Validation failed", a.user, <<>>, <<>>)
         /\ UNCHANGED <<users, items, nextItemId, tokens, arg, out, now>>
  ELSE IF userId.nan
    THEN /\ res' = Respond(route, 400, "Invalid user ID", a.user, seg, <<>>)
         /\ UNCHANGED <<users, items, nextItemId, tokens, arg, out, now>>
  ELSE IF ~body.hasEmail /\ ~body.hasRole
    THEN /\ res' = Respond(route, 400, "No fields to update", a.user, seg, <<>>)
         /\ UNCHANGED <<users, items, nextItemId, tokens, arg, out, now>>
  ELSE IF userId.val \notin DOMAIN users
    THEN /\ res' = Respond(route, 404, "User not found", a.user, seg, <<>>)
         /\ UNCHANGED <<users, items, nextItemId, tokens, arg, out, now>>
  ELSE IF body.hasEmail /\ \E u \in DOMAIN users \ {userId.val} : users[u].email = email
    THEN /\ res' = Respond(route, 400, "Email already exists", a.user, seg, <<>>)
         /\ UNCHANGED <<users, items, nextItemId, tokens, arg, out, now>>
  ELSE /\ users' = [users EXCEPT ![userId.val] = updated]
       /\ res' = Respond(route, 200, "", a.user, seg,
                         <<[id |-> userId.val, email |-> updated.email, role |-> updated.role]>>)
       /\ UNCHANGED <<items, nextItemId, tokens, arg, out, now>>

\* PUT /api/users/:id, behind validateUserUpdate.  email UNIQUE: an update
\* that would give a row the email of another row fails with code 23505.
UsersUpdate(cred, seg, body) ==
  LET a == requireAuth(cred)
      route == "PUT /api/users/:id"
      userId == parseInt(seg)
      email == normalizeEmail(body.email)
      updated == [users[userId.val] EXCEPT
                    !.email = IF body.hasEmail THEN email ELSE @,
                    !.role = IF body.hasRole THEN RoleValue(body) ELSE @]
  IN
  IF ~a.ok THEN Unauthorized(route, a)
  ELSE IF ~requireRole(a.user, "admin") THEN Forbidden(route, a.user)
  ELSE IF ~UserUpdateValid(body)
    THEN /\ res' = Respond(route, 400, "Validation failed", a.user, <<>>, <<>>)
         /\ UNCHANGED <<users, items, nextItemId, tokens, arg, out, now>>
  ELSE IF userId.nan
    THEN /\ res' = Respond(route, 400, "Invalid user ID", a.user, seg, <<>>)
         /\ UNCHANGED <<users, items, nextItemId, tokens, arg, out, now>>
  ELSE IF ~body.hasEmail /\ ~body.hasRole
    THEN /\ res' = Respond(route, 400, "No fields to update", a.user, seg, <<>>)
         /\ UNCHANGED <<users, items, nextItemId, tokens, arg, out, now>>
  ELSE IF userId.val \notin DOMAIN users
    THEN /\ res' = Respond(route, 404, "User not found", a.user, seg, <<>>)
         /\ UNCHANGED <<users, items, nextItemId, tokens, arg, out, now>>
  ELSE IF body.hasEmail /\ \E u \in DOMAIN users \ {userId.val} : users[u].email = email
    THEN /\ res' = Respond(route, 400, "Email already exists", a.user, seg, <<>>)
         /\ UNCHANGED <<users, items, nextItemId, tokens, arg, out, now>>
  ELSE /\ users' = [users EXCEPT ![userId.val] = updated]
       /\ res' = Respond(route, 200, "", a.user, seg,
                         <<[id |-> userId.val, email |-> updated.email, role |-> updated.role]>>)
       /\ UNCHANGED <<items, nextItemId, tokens, arg, out, now>>

\* DELETE /api/users/:id without the test userId === req.user.id
UsersDeleteNoSelfGuard(cred, seg) ==
  LET a == requireAuth(cred)
      route == "DELETE /api/users/:id"
      userId == parseInt(seg)
  IN
  IF ~a.ok THEN Unauthorized(route, a)
  ELSE IF ~requireRole(a.user, "admin") THEN Forbidden(route, a.user)
  ELSE IF userId.nan
    THEN /\ res' = Respond(route, 400, "Invalid user ID", a.user, seg, <<>>)
         /\ UNCHANGED <<users, items, nextItemId, tokens, arg, out, now>>
  ELSE IF userId.val \notin DOMAIN users
    THEN /\ res' = Respond(route, 404, "User not found", a.user, seg, <<>>)
         /\ UNCHANGED <<users, items, nextItemId, tokens, arg, out, now>>
  ELSE /\ users' = [u \in DOMAIN users \ {userId.val} |-> users[u]]
       /\ items' = [i \in { j \in DOMAIN items : items[j].owner_id # userId.val } |-> items[i]]
       /\ res' = Respond(route, 200, "", a.user, seg, <<>>)
       /\ UNCHANGED <<nextItemId, tokens, arg, out, now>>

\* DELETE /api/users/:id on a schema whose owner_id has no ON DELETE CASCADE
\* (and no constraint that stops the delete)
UsersDeleteNoCascade(cred, seg) ==
  LET a == requireAuth(cred)
      route == "DELETE /api/users/:id"
      userId == parseInt(seg)
  IN
  IF ~a.ok THEN Unauthorized(route, a)
  ELSE IF ~requireRole(a.user, "admin") THEN Forbidden(route, a.user)
  ELSE IF userId.nan
    THEN /\ res' = Respond(route, 400, "Invalid user ID", a.user, seg, <<>>)
         /\ UNCHANGED <<users, items, nextItemId, tokens, arg, out, now>>
  ELSE IF userId.val = a.user.id
    THEN /\ res' = Respond(route, 400, "Cannot delete your own account", a.user, seg, <<>>)
         /\ UNCHANGED <<users, items, nextItemId, tokens, arg, out, now>>
  ELSE IF userId.val \notin DOMAIN users
    THEN /\ res' = Respond(route, 404, "User not found", a.user, seg, <<>>)
         /\ UNCHANGED <<users, items, nextItemId, tokens, arg, out, now>>
  ELSE /\ users' = [u \in DOMAIN users \ {userId.val} |-> users[u]]
       /\ items' = items
       /\ res' = Respond(route, 200, "", a.user, seg, <<>>)
       /\ UNCHANGED <<nextItemId, tokens, arg, out, now>>

\* DELETE /api/users/:id; ON DELETE CASCADE removes the items of the row
UsersDelete(cred, seg) ==
  LET a == requireAuth(cred)
      route == "DELETE /api/users/:id"
      userId == parseInt(seg)
  IN
  IF ~a.ok THEN Unauthorized(route, a)
  ELSE IF ~requireRole(a.user, "admin") THEN Forbidden(route, a.user)
  ELSE IF userId.nan
    THEN /\ res' = Respond(route, 400, "Invalid user ID", a.user, seg, <<>>)
         /\ UNCHANGED <<users, items, nextItemId, tokens, arg, out, now>>
  ELSE IF userId.val = a.user.id
    THEN /\ res' = Respond(route, 400, "Cannot delete your own account", a.user, seg, <<>>)
         /\ UNCHANGED <<users, items, nextItemId, tokens, arg, out, now>>
  ELSE IF userId.val \notin DOMAIN users
    THEN /\ res' = Respond(route, 404, "User not found", a.user, seg, <<>>)
         /\ UNCHANGED <<users, items, nextItemId, tokens, arg, out, now>>
  ELSE /\ users' = [u \in DOMAIN users \ {userId.val} |-> users[u]]
       /\ items' = [i \in { j \in DOMAIN items : items[j].owner_id # userId.val } |-> items[i]]
       /\ res' = Respond(route, 200, "", a.user, seg, <<>>)
       /\ UNCHANGED <<nextItemId, tokens, arg, out, now>>

-----------------------------------------------------------------------------
(* routes/auth.js *)

\* POST /api/auth/login with the credentials of principal u: a token that
\* encodes the principal's id and its role at this moment.  The route is not
\* behind requireAuth.
Login(u) ==
  LET t == [id |-> u, role |-> users[u].role] IN
  /\ u \in DOMAIN users
  /\ tokens' = tokens \cup {t}
  /\ res' = [Respond("POST /api/auth/login", 200, "", t, <<>>, <<>>) EXCEPT !.auth = "none"]
  /\ UNCHANGED <<users, items, nextItemId, arg, out, now>>

\* principals ever in the users table
MaxUsers == 3

\* bcrypt works on the first 72 bytes of the password
BcryptMax == 72

\* bcrypt.hash(password, 10): the digest, as far as bcrypt.compare can tell
\* digests apart; the salt is left out, compare recomputes with the salt of
\* the digest
hash(password) ==
  [of |-> SubSeq(password, 1, IF Len(password) < BcryptMax THEN Len(password) ELSE BcryptMax)]

\* bcrypt.compare that looks at the whole plaintext
compareWhole(plaintext, digest) == [of |-> plaintext] = digest

\* bcrypt.compare(plaintext, digest)
compare(plaintext, digest) == hash(plaintext) = digest

\* database/setup.js: the passwords of the two seeded principals
AdminPassword == <<"A","d","m","i","n","1","2","3","!">>
TestUserPassword == <<"U","s","e","r","1","2","3","!">>

PasswordMin == 8
PasswordMax == 100

\* the characters "." of a JavaScript regular expression does not match
LineBreaks == {"\n", "\r"}

\* what .* can run over from the start of s: up to the first line break
FirstLine(s) ==
  LET B == { k \in 1..Len(s) : s[k] \in LineBreaks } IN
  IF B = {} THEN s ELSE SubSeq(s, 1, Min(B) - 1)

\* .matches(/^(?=.*[a-z])(?=.*[A-Z])(?=.*\d)/): each look-ahead searches from
\* the start of the password, and .* stops at a line break
PasswordMatches(password) ==
  LET line == FirstLine(password) IN
  /\ \E k \in 1..Len(line) : line[k] \in Range(LowerCase)
  /\ \E k \in 1..Len(line) : line[k] \in Range(UpperCase)
  /\ \E k \in 1..Len(line) : line[k] \in Range(Digits)

\* validateUser on a body [email, password]
UserValid(body) ==
  /\ body.email \in ValidEmails
  /\ Len(body.password) >= PasswordMin
  /\ Len(body.password) <= PasswordMax
  /\ PasswordMatches(body.password)

\* POST /api/auth/register, behind validateUser and not behind requireAuth:
\* a new principal with role user and a token for it, 400 when the email is
\* taken.  The serial of users: where no row is ever deleted, the next id is
\* one more than the largest.
Register(email, password) ==
  LET route == "POST /api/auth/register"
      body == [email |-> email, password |-> password]
      e == normalizeEmail(email)
      id == Max(DOMAIN users) + 1
      t == [id |-> id, role |-> "user"]
  IN
  IF ~UserValid(body)
    THEN /\ res' = [Respond(route, 400, "Validation failed", NoUser, <<>>, <<>>)
                      EXCEPT !.auth = "none"]
         /\ UNCHANGED <<users, items, nextItemId, tokens, arg, out, now>>
  ELSE IF \E u \in DOMAIN users : users[u].email = e
    THEN /\ res' = [Respond(route, 400, "User already exists", NoUser, <<>>, <<>>)
                      EXCEPT !.auth = "none"]
         /\ UNCHANGED <<users, items, nextItemId, tokens, arg, out, now>>
  ELSE /\ Cardinality(DOMAIN users) < MaxUsers
       /\ users' = [u \in DOMAIN users \cup {id} |->
                      IF u = id
                        THEN [email |-> e, role |-> "user", password_hash |-> hash(password)]
                        ELSE users[u]]
       /\ tokens' = tokens \cup {t}
       /\ res' = [Respond(route, 201, "", t, <<>>,
                          <<[id |-> id, email |-> e, role |-> "user"]>>)
                    EXCEPT !.auth = "none"]
       /\ UNCHANGED <<items, nextItemId, arg, out, now>>

\* POST /api/auth/login {email, password}, behind validateUser and not behind
\* requireAuth: the principal is looked up by the normalized email and the
\* password compared with its digest; 401 with one message when either
\* fails, otherwise a token for the principal's id and present role
LoginWith(email, password) ==
  LET route == "POST /api/auth/login"
      body == [email |-> email, password |-> password]
      found == { u \in DOMAIN users : users[u].email = normalizeEmail(email) }
      u == CHOOSE v \in found : TRUE
      t == [id |-> u, role |-> users[u].role]
  IN
  IF ~UserValid(body)
    THEN /\ res' = [Respond(route, 400, "Validation failed", NoUser, <<>>, <<>>)
                      EXCEPT !.auth = "none"]
         /\ UNCHANGED <<users, items, nextItemId, tokens, arg, out, now>>
  ELSE IF found = {} \/ ~compare(password, users[u].password_hash)
    THEN /\ res' = [Respond(route, 401, "Invalid credentials", NoUser, <<>>, <<>>)
                      EXCEPT !.auth = "none"]
         /\ UNCHANGED <<users, items, nextItemId, tokens, arg, out, now>>
  ELSE /\ tokens' = tokens \cup {t}
       /\ res' = [Respond(route, 200, "", t, <<>>, <<>>) EXCEPT !.auth = "none"]
       /\ UNCHANGED <<users, items, nextItemId, arg, out, now>>

-----------------------------------------------------------------------------
(* The request bodies *)

NoNoteBody(name) == [name |-> name, hasNote |-> FALSE, note |-> <<>>]
NoteBody(name, note) == [name |-> name, hasNote |-> TRUE, note |-> note]

QueryBody(query) == [hasQuery |-> TRUE, query |-> query]
NoQueryBody == [hasQuery |-> FALSE, query |-> <<>>]

RoleBody(role) ==
  [hasEmail |-> FALSE, email |-> "", hasRole |-> TRUE, role |-> role,
   roleIsArray |-> FALSE, roleItems |-> <<>>]
RoleArrayBody(elems) ==
  [hasEmail |-> FALSE, email |-> "", hasRole |-> TRUE, role |-> "",
   roleIsArray |-> TRUE, roleItems |-> elems]
EmailBody(email) ==
  [hasEmail |-> TRUE, email |-> email, hasRole |-> FALSE, role |-> "",
   roleIsArray |-> FALSE, roleItems |-> <<>>]
EmptyUserBody ==
  [hasEmail |-> FALSE, email |-> "", hasRole |-> FALSE, role |-> "",
   roleIsArray |-> FALSE, roleItems |-> <<>>]

\* database/setup.js: the default admin and the test user
SeededUsers ==
  (1 :> [email |-> AdminEmail, role |-> "admin", password_hash |-> hash(AdminPassword)])
  @@ (2 :> [email |-> TestUserEmail, role |-> "user", password_hash |-> hash(TestUserPassword)])

NoResponse == [Respond("", 0, "", NoUser, <<>>, <<>>) EXCEPT !.auth = "none"]

-----------------------------------------------------------------------------
(* Spec: the whole API from the seeded database; nobody has logged in *)

Init ==
  /\ users = SeededUsers
  /\ items = <<>>
  /\ nextItemId = 1
  /\ tokens = {}
  /\ res = NoResponse
  /\ arg = <<>>
  /\ out = <<>>
  /\ now = 0

ApiSegs == { <<"1">>, <<"2">>, <<"x">> }
ApiItemBodies == { NoNoteBody(<<"k">>), NoNoteBody(<<>>) }
ApiSearchBodies == { NoQueryBody, QueryBody(<<"K">>) }
ApiUserBodies == { RoleBody("auditor"), RoleBody("root"), EmptyUserBody }

Next ==
  \/ \E u \in DOMAIN users : Login(u)
  \/ \E cred \in Creds : VaultList(cred)
  \/ \E cred \in Creds : VaultAll(cred)
  \/ \E cred \in Creds, body \in ApiSearchBodies : VaultSearch(cred, body)
  \/ \E cred \in Creds, seg \in ApiSegs : VaultGet(cred, seg)
  \/ \E cred \in Creds, body \in ApiItemBodies : VaultCreate(cred, body)
  \/ \E cred \in Creds, seg \in ApiSegs, body \in ApiItemBodies : VaultUpdate(cred, seg, body)
  \/ \E cred \in Creds, seg \in ApiSegs : VaultDelete(cred, seg)
  \/ \E cred \in Creds : UsersList(cred)
  \/ \E cred \in Creds, seg \in ApiSegs : UsersGet(cred, seg)
  \/ \E cred \in Creds, seg \in ApiSegs, body \in ApiUserBodies : UsersUpdate(cred, seg, body)
  \/ \E cred \in Creds, seg \in ApiSegs : UsersDelete(cred, seg)

Spec == Init /\ [][Next]_vars

-----------------------------------------------------------------------------
(* SpecVault: the vault routes, after the two seeded principals logged in *)

InitVault ==
  /\ users = SeededUsers
  /\ items = <<>>
  /\ nextItemId = 1
  /\ tokens = { [id |-> u, role |-> SeededUsers[u].role] : u \in DOMAIN SeededUsers }
  /\ res = NoResponse
  /\ arg = <<>>
  /\ out = <<>>
  /\ now = 0

VaultSegs == NumSegs \cup BadSegs

VaultItemBodies ==
  { NoNoteBody(<<"k">>),
    NoteBody(<<" ","m"," ">>, <<" ","a","<">>),
    NoNoteBody(<<"k",";">>) }

VaultSearchBodies ==
  { NoQueryBody,
    QueryBody(<<" ">>),
    QueryBody(<<"K">>),
    QueryBody(<<"%">>),
    QueryBody(<<"'"," ","O","R"," ","1","=","1"," ","-","-">>),
    QueryBody(Rep("a", QueryMax + 1)) }

NextVault ==
  \/ \E cred \in Creds : VaultList(cred)
  \/ \E cred \in Creds : VaultAll(cred)
  \/ \E cred \in Creds, body \in VaultSearchBodies : VaultSearch(cred, body)
  \/ \E cred \in Creds, seg \in VaultSegs : VaultGet(cred, seg)
  \/ \E cred \in Creds, body \in VaultItemBodies : VaultCreate(cred, body)
  \/ \E cred \in Creds, seg \in VaultSegs, body \in VaultItemBodies :
       VaultUpdate(cred, seg, body)
  \/ \E cred \in Creds, seg \in VaultSegs : VaultDelete(cred, seg)

SpecVault == InitVault /\ [][NextVault]_vars

-----------------------------------------------------------------------------
(* SpecValid: the two routes behind validateVaultItem, on bodies at the edges
   of its rules *)

ValidItemBodies ==
  { NoteBody(<<" ","m"," ">>, <<" ","a","<">>),
    NoNoteBody(<<"a","\t","b">>),
    NoNoteBody(<<>>),
    NoNoteBody(<<" ">>),
    NoNoteBody(<<"k",";">>),
    NoNoteBody(Rep("a", NameMax + 1)),
    NoteBody(<<"k">>, Rep("a", NoteMax + 1)) }

NextValid ==
  \/ \E cred \in Creds, body \in ValidItemBodies : VaultCreate(cred, body)
  \/ \E cred \in Creds, seg \in NumSegs, body \in ValidItemBodies :
       VaultUpdate(cred, seg, body)

SpecValid == InitVault /\ [][NextValid]_vars

-----------------------------------------------------------------------------
(* SpecUsers: registration, login and the admin's updates of principals; no
   row of users is deleted *)

RegEmails == { "new@test.com", "New@Test.com", TestUserEmail, "not-an-email" }

RegPasswords ==
  { <<"A","a","1","a","a","a","a","a">>,
    <<"A","a","1","a","a","a","a">>,
    <<"a","a","1","a","a","a","a","a">>,
    <<"A","A","1","A","A","A","A","A">>,
    <<"A","a","a","a","a","a","a","a">>,
    <<"A","a","a","a","a","a","a","\n","1">>,
    <<"A","1">> \o Rep("a", PasswordMax - 1) }

UserSegs == { <<"1">>, <<"2">>, <<"3">> }

UserBodies ==
  { RoleBody("auditor"), RoleBody("root"), EmailBody("New@Test.com"),
    EmailBody(AdminEmail), EmptyUserBody }

NextUsers ==
  \/ \E email \in RegEmails, password \in RegPasswords : Register(email, password)
  \/ \E u \in DOMAIN users : Login(u)
  \/ \E cred \in Creds, seg \in UserSegs, body \in UserBodies : UsersUpdate(cred, seg, body)

SpecUsers == Init /\ [][NextUsers]_vars

-----------------------------------------------------------------------------
(* SpecRoles: registration, login and the updates of a role, the role given
   as a string or as an array of strings *)

RoleBodies ==
  { RoleBody("auditor"), RoleBody("root"), RoleArrayBody(<<"admin">>),
    RoleArrayBody(<<"root">>) }

NextRoles ==
  \/ Register("new@test.com", <<"A","a","1","a","a","a","a","a">>)
  \/ \E u \in DOMAIN users : Login(u)
  \/ \E cred \in Creds, seg \in UserSegs, body \in RoleBodies : UsersUpdate(cred, seg, body)

SpecRoles == Init /\ [][NextRoles]_vars

-----------------------------------------------------------------------------
(* SpecAuth: registration, login with an email and a password, and the list
   of the caller's items *)

\* two passwords of the greatest length the chain admits, alike in their
\* first 99 characters
LongPassword == <<"A","1">> \o Rep("a", PasswordMax - 2)
LongPasswordOtherEnd == <<"A","1">> \o Rep("a", PasswordMax - 3) \o <<"b">>

AuthRegEmails == { "new@test.com", "New@Test.com" }
AuthEmails ==
  AuthRegEmails \cup { AdminEmail, TestUserEmail, "nobody@test.com", "not-an-email" }

AuthPasswords ==
  { AdminPassword, TestUserPassword, <<"A","a","1","a","a","a","a","a">>, LongPassword,
    LongPasswordOtherEnd, <<"w","e","a","k">> }

\* the passwords principals register with
AuthRegPasswords == AuthPasswords \ {LongPasswordOtherEnd}

NextAuth ==
  \/ \E email \in AuthRegEmails, password \in AuthRegPasswords : Register(email, password)
  \/ \E email \in AuthEmails, password \in AuthPasswords : LoginWith(email, password)
  \/ \E cred \in Creds : VaultList(cred)

SpecAuth == Init /\ [][NextAuth]_vars

-----------------------------------------------------------------------------
(* Token Service: issue and verify, with the clock *)

\* time to live of a token, in ticks of the clock
TTL == 2

\* the clock runs from 0 to MaxTime
MaxTime == 3

\* tokens issued in one behaviour
MaxTokens == 2

\* the server-held secret, and the keys somebody else can sign with
Secret == "server-secret"
ForeignKeys == {"other-secret", "none"}

\* the signature of a payload under a key; two signatures are equal only when
\* computed over the same payload with the same key
Sign(payload, key) == [over |-> payload, key |-> key]

\* issue(principal) at time t
issue(principal, t) ==
  LET payload == [subjectId |-> principal.id, role |-> principal.role,
                  issuedAt |-> t, expiresAt |-> t + TTL]
  IN  [wellFormed |-> TRUE, payload |-> payload, signature |-> Sign(payload, Secret)]

NoClaims == [subjectId |-> 0, role |-> "none"]
AuthError(error, t) == [ok |-> FALSE, error |-> error, claims |-> NoClaims, at |-> t]

\* verify that decodes the payload and never recomputes the signature
verifyTrustsPayload(token, t) ==
  IF ~token.wellFormed THEN AuthError("Malformed", t)
  ELSE IF t >= token.payload.expiresAt THEN AuthError("Expired", t)
  ELSE [ok |-> TRUE, error |-> "", at |-> t,
        claims |-> [subjectId |-> token.payload.subjectId, role |-> token.payload.role]]

\* verify that still accepts a token at the instant expiresAt
verifyLateByOne(token, t) ==
  IF ~token.wellFormed THEN AuthError("Malformed", t)
  ELSE IF token.signature # Sign(token.payload, Secret) THEN AuthError("BadSignature", t)
  ELSE IF t > token.payload.expiresAt THEN AuthError("Expired", t)
  ELSE [ok |-> TRUE, error |-> "", at |-> t,
        claims |-> [subjectId |-> token.payload.subjectId, role |-> token.payload.role]]

\* verify(token) at time t: Malformed, then BadSignature by a fresh
\* computation over the payload, then Expired when t >= expiresAt, otherwise
\* the claims {subjectId, role}
verify(token, t) ==
  IF ~token.wellFormed THEN AuthError("Malformed", t)
  ELSE IF token.signature # Sign(token.payload, Secret) THEN AuthError("BadSignature", t)
  ELSE IF t >= token.payload.expiresAt THEN AuthError("Expired", t)
  ELSE [ok |-> TRUE, error |-> "", at |-> t,
        claims |-> [subjectId |-> token.payload.subjectId, role |-> token.payload.role]]

-----------------------------------------------------------------------------
(* SpecToken: tokens are issued to the seeded principals, the clock ticks,
   and issued, altered and unparsable tokens are verified *)

\* a string that is no token
Garbage == [wellFormed |-> FALSE, payload |-> [subjectId |-> 0, role |-> "none", issuedAt |-> 0, expiresAt |-> 0],
            signature |-> Sign([subjectId |-> 0, role |-> "none", issuedAt |-> 0, expiresAt |-> 0], "none")]

\* the payloads that differ from p in one field
PayloadsNear(p) ==
  { [p EXCEPT !.subjectId = v] : v \in (1..MaxUsers) \ {p.subjectId} }
  \cup { [p EXCEPT !.role = v] : v \in Roles \ {p.role} }
  \cup { [p EXCEPT !.issuedAt = v] : v \in {0, p.issuedAt + 1} \ {p.issuedAt} }
  \cup { [p EXCEPT !.expiresAt = v] : v \in {p.expiresAt + 1, MaxTime + TTL + 1} }

\* token t with its payload changed in one field, its signature replaced by
\* the signature of an issued token or by one made with a foreign key over
\* the payload presented, or both
Tampered(t) ==
  UNION { { [wellFormed |-> TRUE, payload |-> p, signature |-> g] :
              g \in { u.signature : u \in tokens } \cup { Sign(p, k) : k \in ForeignKeys } } :
            p \in PayloadsNear(t.payload) \cup {t.payload} }
  \ {t}

NotVerified == [ok |-> FALSE, error |-> "", claims |-> NoClaims, at |-> 0 - 1]

InitToken ==
  /\ users = SeededUsers
  /\ items = <<>>
  /\ nextItemId = 1
  /\ tokens = {}
  /\ res = NoResponse
  /\ arg = Garbage
  /\ out = NotVerified
  /\ now = 0

\* login of principal u: the Token Service issues a token at the present time
Issue(u) ==
  /\ Cardinality(tokens) < MaxTokens
  /\ tokens' = tokens \cup {issue([id |-> u, role |-> users[u].role], now)}
  /\ UNCHANGED <<users, items, nextItemId, res, arg, out, now>>

Tick ==
  /\ now < MaxTime
  /\ now' = now + 1
  /\ UNCHANGED <<users, items, nextItemId, tokens, res, arg, out>>

\* a request presents a token and the gate calls verify
Verify(token) ==
  /\ arg' = token
  /\ out' = verify(token, now)
  /\ UNCHANGED <<users, items, nextItemId, tokens, res, now>>

NextToken ==
  \/ \E u \in DOMAIN users : Issue(u)
  \/ Tick
  \/ \E t \in tokens : Verify(t)
  \/ \E t \in tokens : \E x \in Tampered(t) : Verify(x)
  \/ Verify(Garbage)

SpecToken == InitToken /\ [][NextToken]_vars

-----------------------------------------------------------------------------
(* SpecSan: sanitizeNote applied to a note, and again to its own result *)

\* fragments per input note
MaxFrags == 4

\* applications of sanitizeNote per note
MaxPasses == 2

\* the payloads of tests/xss.test.js
XssScript == <<"<","s","c","r","i","p","t",">","a","l","e","r","t","(","\"","X","S","S","\"",")","<","/","s","c","r","i","p","t",">">>
XssCookie == <<"<","s","c","r","i","p","t",">","d","o","c","u","m","e","n","t",".","c","o","o","k","i","e","<","/","s","c","r","i","p","t",">">>
XssImg == <<"<","i","m","g"," ","s","r","c","=","x"," ","o","n","e","r","r","o","r","=","a","l","e","r","t","(","1",")",">">>
XssScheme == <<"j","a","v","a","s","c","r","i","p","t",":","a","l","e","r","t","(","\"","X","S","S","\"",")">>

\* an event-handler attribute with a quoted value, the form the second
\* pattern of sanitizeInput removes
XssHandler == <<"<","i","m","g"," ","O","n","E","r","r","o","r"," ","="," ","'","x","(",")","'",">">>

Fragments ==
  { <<"<","s","c","r","i","p","t",">">>,
    <<"<","/","s","c","r","i","p","t",">">>,
    <<"<","S","C","R","I","P","T"," ","a",">">>,
    <<"<","/","S","c","r","i","p","t",">">>,
    <<"X">>,
    <<"&">> }

RECURSIVE Notes(_)
\* the concatenations of at most n fragments
Notes(n) ==
  IF n = 0 THEN { <<>> }
  ELSE Notes(n - 1) \cup { s \o f : s \in Notes(n - 1), f \in Fragments }

\* the scheme token written inside another occurrence of itself
XssNested == <<"j","a","v","a","J","a","v","a","S","c","r","i","p","t",":","s","c","r","i","p","t",":","x","(",")">>

NoteInputs ==
  Notes(MaxFrags) \cup { XssScript, XssCookie, XssImg, XssScheme, XssHandler, XssNested }

InitSan ==
  /\ users = SeededUsers
  /\ items = <<>>
  /\ nextItemId = 1
  /\ tokens = {}
  /\ res = NoResponse
  /\ arg \in NoteInputs
  /\ out = [passes |-> 0, once |-> <<>>, text |-> arg]
  /\ now = 0

\* one more application of sanitizeNote to the text; once keeps the result
\* of the first
Sanitize ==
  /\ out.passes < MaxPasses
  /\ out' = [passes |-> out.passes + 1,
             once |-> IF out.passes = 0 THEN sanitizeNote(out.text) ELSE out.once,
             text |-> sanitizeNote(out.text)]
  /\ UNCHANGED <<users, items, nextItemId, tokens, res, arg, now>>

NextSan == Sanitize

SpecSan == InitSan /\ [][NextSan]_vars

-----------------------------------------------------------------------------
(* Properties of the vault routes (SpecVault) *)

GetRoute == "GET /api/vault/:id"
PutRoute == "PUT /api/vault/:id"
DeleteRoute == "DELETE /api/vault/:id"

\* the item id the handler of response r looked up (0 when it parsed none)
Target(r) == IF parseInt(r.seg).nan THEN 0 ELSE parseInt(r.seg).val

\* C1: a non-admin principal that reads or deletes, by id, an existing item
\* of another owner gets 404 (neither 403 nor 200), and the item stays as
\* it was.
OtherOwnerHidden ==
  [][ ( /\ res'.route \in {GetRoute, DeleteRoute}
        /\ res'.auth = "good"
        /\ res'.user.role # "admin"
        /\ Target(res') \in DOMAIN items
        /\ items[Target(res')].owner_id # res'.user.id )
      => ( res'.status = 404 /\ items' = items ) ]_vars

\* a non-admin principal was answered 404 on DELETE for an item that exists
\* and belongs to somebody else
OtherOwnerDeleteRefused ==
  /\ res.route = DeleteRoute
  /\ res.status = 404
  /\ res.auth = "good"
  /\ res.user.role # "admin"
  /\ Target(res) \in DOMAIN items
  /\ items[Target(res)].owner_id # res.user.id

\* C2: an admin that reads or (with a valid payload) updates, by id, any
\* existing item is answered 200, whoever owns the item.
AdminReadsAndUpdatesAnyItem ==
  ( /\ res.route \in {GetRoute, PutRoute}
    /\ res.auth = "good"
    /\ res.user.role = "admin"
    /\ Target(res) \in DOMAIN items )
  => res.status = 200

\* C3: DELETE of an existing item answers 200 and removes the item exactly
\* when the caller is an admin or the item's owner; otherwise nothing is
\* removed.  An id that left the table never comes back, and a GET of an id
\* that is not in the table is never answered 200.
DeleteIffAdminOrOwner ==
  [][ /\ ( /\ res'.route = DeleteRoute
           /\ res'.auth = "good"
           /\ Target(res') \in DOMAIN items )
         => IF res'.user.role = "admin" \/ items[Target(res')].owner_id = res'.user.id
              THEN /\ res'.status = 200
                   /\ DOMAIN items' = DOMAIN items \ {Target(res')}
                   /\ \A i \in DOMAIN items' : items'[i] = items[i]
              ELSE res'.status # 200 /\ items' = items
      /\ \A i \in DOMAIN items' : i \in DOMAIN items \/ i >= nextItemId
      /\ ( res'.route = GetRoute /\ Target(res') \notin DOMAIN items' )
         => res'.status # 200 ]_vars

\* an admin deleted an item while an item of the other principal exists
AdminDeleted ==
  /\ res.route = DeleteRoute
  /\ res.status = 200
  /\ res.user.role = "admin"
  /\ Target(res) \notin DOMAIN items
  /\ Target(res) \in 1..(nextItemId - 1)

\* C6: the list and the search answer a principal with rows of its own
\* items only, each row as stored; for every principal and every search
\* body, the rows of the search are among the rows of the principal's own
\* list, and a missing, empty or white-space query gives no row.
OwnItemsOnly ==
  /\ ( res.route \in {"GET /api/vault", "POST /api/vault/search"} /\ res.auth = "good" )
     => \A k \in DOMAIN res.rows :
          /\ res.rows[k].id \in OwnedBy(res.user.id)
          /\ res.rows[k] = ItemRow(res.rows[k].id)
  /\ \A t \in GoodTokens, body \in VaultSearchBodies :
       LET user == [id |-> t.id, role |-> t.role]
           rows == VaultSearchResponse(user, body).rows
       IN  /\ Range(rows) \subseteq Range(ItemRows(OwnedBy(user.id)))
           /\ Len(rows) <= Cardinality(OwnedBy(user.id))
           /\ (~body.hasQuery \/ trim(body.query) = <<>>) => rows = <<>>

\* a search returned the caller's item while another principal's item, which
\* the same pattern matches, is in the table
SearchSkippedOtherOwner ==
  /\ res.route = "POST /api/vault/search"
  /\ res.status = 200
  /\ res.rows # <<>>
  /\ \E i \in DOMAIN items :
       /\ items[i].owner_id # res.user.id
       /\ items[i].name = res.rows[1].name

\* the segment is a non-negative integer in its entirety: digits only
AllDigits(seg) == seg # <<>> /\ \A k \in 1..Len(seg) : seg[k] \in Range(Digits)

\* C7: a request on /api/vault/:id whose id segment is not in its entirety a
\* non-negative integer is answered 400.
NonIntegerIdRejected ==
  ( /\ res.route \in {GetRoute, PutRoute, DeleteRoute}
    /\ res.auth = "good"
    /\ res.seg # <<>>
    /\ ~AllDigits(res.seg) )
  => res.status = 400

\* the routes whose responses carry item rows
ItemRoutes ==
  {"GET /api/vault", "GET /api/vault/all", "POST /api/vault/search",
   "POST /api/vault", GetRoute, PutRoute}

\* every note a response carries is the note stored for that item
RowsCarryStoredNote ==
  res.route \in ItemRoutes
    => \A k \in DOMAIN res.rows :
         /\ res.rows[k].id \in DOMAIN items
         /\ res.rows[k].note = items[res.rows[k].id].note

-----------------------------------------------------------------------------
(* Properties of the gates (Spec) *)

AdminRoutes ==
  {"GET /api/vault/all", "GET /api/users", "GET /api/users/:id",
   "PUT /api/users/:id", "DELETE /api/users/:id"}

ProtectedRoutes ==
  AdminRoutes \cup
  {"GET /api/vault", "POST /api/vault/search", "POST /api/vault",
   GetRoute, PutRoute, DeleteRoute}

\* C4: on GET /api/vault/all and on every /api/users route an authenticated
\* principal whose role is not admin is answered 403 "Access denied", with no
\* row in the response and the two tables as they were; an admin is never
\* answered 403.
AdminRoutesAdminOnly ==
  [][ ( res'.route \in AdminRoutes /\ res'.auth = "good" )
      => IF res'.user.role = "admin"
           THEN res'.status # 403
           ELSE /\ res'.status = 403
                /\ res'.error = "Access denied"
                /\ res'.rows = <<>>
                /\ users' = users
                /\ items' = items ]_vars

\* a principal with role auditor was refused on a user-management route
AuditorRefused ==
  /\ res.route \in AdminRoutes \ {"GET /api/vault/all"}
  /\ res.user.role = "auditor"
  /\ res.status = 403

\* C5: a request to a route of the vault or of user management that carries
\* no token, or a token that fails verification, is answered 401 with
\* "Authentication required", respectively "Invalid or expired token", with
\* no row in the response, and leaves users and items as they were.
UnauthenticatedRejected ==
  [][ ( res'.route \in ProtectedRoutes /\ res'.auth # "good" )
      => /\ res'.status = 401
         /\ res'.error = IF res'.auth = "none" THEN "Authentication required"
                                               ELSE "Invalid or expired token"
         /\ res'.rows = <<>>
         /\ users' = users
         /\ items' = items
         /\ nextItemId' = nextItemId ]_vars

\* a request with a token that fails verification was refused while the
\* table holds an item
BadTokenRefused ==
  /\ res.route \in ProtectedRoutes
  /\ res.auth = "bad"
  /\ res.status = 401
  /\ items # <<>>

-----------------------------------------------------------------------------
(* Properties of the sanitizer (SpecSan) *)

\* C9: sanitizeNote applied to its own result gives that result again.
SanitizeNoteIdempotent == out.passes >= 2 => out.text = out.once

\* the characters the entities of escapeHtml are written with
EntityChars == Range(Amp) \cup Range(Lt) \cup Range(Gt) \cup Range(Quot) \cup Range(Apos)

\* the index where the tag that opens at p ends: the first "<" or ">" after
\* the tag name, 0 when there is none
TagEnd(s, p) ==
  LET E == { k \in (p + 7)..Len(s) : s[k] \in {"<", ">"} } IN
  IF E = {} THEN 0 ELSE Min(E)

\* s has a complete script block at p: an opening tag "<script", in any
\* letter case, that ends with ">", and a closing tag after it
IsScriptBlock(s, p) ==
  /\ StartsWithCI(s, p, ScriptOpen)
  /\ p + 7 <= Len(s)
  /\ ~IsWord(s[p + 7])
  /\ TagEnd(s, p) > 0
  /\ s[TagEnd(s, p)] = ">"
  /\ ClosesFrom(s, TagEnd(s, p) + 1) # {}

\* the indices of the body of the block at p: after the opening tag, before
\* the first closing tag, "</script>" in any letter case
BodyOf(s, p) == (TagEnd(s, p) + 1)..(Min(ClosesFrom(s, TagEnd(s, p) + 1)) - 1)

\* the characters of the body of the block at p that occur nowhere else in s
\* and in no entity: if one of them is in the output, it came from the body
BodyMarks(s, p) ==
  { s[k] : k \in BodyOf(s, p) } \
    ( EntityChars \cup { s[j] : j \in (1..Len(s)) \ BodyOf(s, p) } )

HandlerAt(s, i) ==
  /\ StartsWithCI(s, i, <<"o", "n">>)
  /\ SkipWhile(s, i + 2, "w") > i + 2
  /\ SkipWhile(s, SkipWhile(s, i + 2, "w"), "s") <= Len(s)
  /\ s[SkipWhile(s, SkipWhile(s, i + 2, "w"), "s")] = "="

\* C11: the sanitized note has no event-handler attribute assignment left,
\* whether its value was quoted or not; for the note
\* <img src=x onerror=alert(1)> it contains neither "<img" nor "onerror",
\* and it contains "&lt;" or "&amp;".
HandlersRemoved ==
  out.passes >= 1 =>
    /\ \A i \in 1..Len(out.once) : ~HandlerAt(out.once, i)
    /\ arg = XssImg =>
         /\ ~Contains(out.once, <<"<", "i", "m", "g">>)
         /\ ~Contains(out.once, <<"o", "n", "e", "r", "r", "o", "r">>)
         /\ Contains(out.once, Lt) \/ Contains(out.once, Amp)

\* C12: the sanitized note, compared case-insensitively, has no occurrence
\* of "javascript:".
SchemeRemoved == out.passes >= 1 => ~ContainsCI(out.once, JsScheme)

-----------------------------------------------------------------------------
(* Properties of the validation chains *)

\* the rule for an item as the specification words it: the trimmed name has
\* 1 to 255 characters, each a letter, a digit, a space, a hyphen or an
\* underscore; the note, when present, has at most 5000 after trimming
ItemValidAsStated(body) ==
  /\ Len(trim(body.name)) \in 1..NameMax
  /\ \A k \in 1..Len(trim(body.name)) :
       IsWord(trim(body.name)[k]) \/ trim(body.name)[k] \in {" ", "-"}
  /\ body.hasNote => Len(trim(body.note)) <= NoteMax

\* C13: POST /api/vault by an authenticated principal is answered 201, with
\* exactly one new item, owned by the caller, iff the body meets the rule;
\* otherwise it is answered 400 and the table is as it was.
CreateAcceptedIffValid ==
  [][ \A cred \in GoodTokens, body \in ValidItemBodies :
        VaultCreate(cred, body) =>
          IF ItemValidAsStated(body)
            THEN /\ res'.status = 201
                 /\ DOMAIN items' = DOMAIN items \cup {nextItemId}
                 /\ nextItemId \notin DOMAIN items
                 /\ items'[nextItemId].owner_id = cred.id
                 /\ \A i \in DOMAIN items : items'[i] = items[i]
            ELSE /\ res'.status = 400
                 /\ items' = items ]_vars

\* the rule for a password as the specification words it: 8 to 100
\* characters, among them an upper-case letter, a lower-case letter and a
\* digit
PasswordValidAsStated(password) ==
  /\ Len(password) \in PasswordMin..PasswordMax
  /\ \E k \in 1..Len(password) : password[k] \in Range(UpperCase)
  /\ \E k \in 1..Len(password) : password[k] \in Range(LowerCase)
  /\ \E k \in 1..Len(password) : password[k] \in Range(Digits)

\* C14: POST /api/auth/register is answered 400, and no principal is
\* created, when the email is no valid address or the password breaks a rule;
\* when all rules hold and the email is unused, it is answered 201 and there
\* is exactly one new principal, with role user.
RegisterValidated ==
  [][ \A email \in RegEmails, password \in RegPasswords :
        Register(email, password) =>
          IF email \notin ValidEmails \/ ~PasswordValidAsStated(password)
            THEN res'.status = 400 /\ users' = users
          ELSE IF \A u \in DOMAIN users : users[u].email # normalizeEmail(email)
            THEN /\ res'.status = 201
                 /\ Cardinality(DOMAIN users' \ DOMAIN users) = 1
                 /\ \A u \in DOMAIN users' \ DOMAIN users : users'[u].role = "user"
                 /\ \A u \in DOMAIN users : u \in DOMAIN users' /\ users'[u] = users[u]
          ELSE TRUE ]_vars

-----------------------------------------------------------------------------
(* Properties of the two tables *)

\* C15: no request changes the owner_id of an item that exists, and an item
\* enters the table only through POST /api/vault, with the caller's id as its
\* owner_id; so every item is owned by the principal that created it.
OwnerImmutable ==
  [][ /\ \A i \in DOMAIN items \cap DOMAIN items' : items'[i].owner_id = items[i].owner_id
      /\ \A i \in DOMAIN items' \ DOMAIN items :
           /\ res'.route = "POST /api/vault"
           /\ items'[i].owner_id = res'.user.id ]_vars

\* a PUT by the owner of an item was answered 200 and the item is still the
\* caller's
UpdateKeptOwner ==
  /\ res.route = PutRoute
  /\ res.status = 200
  /\ res.user.role = "user"
  /\ Target(res) \in DOMAIN items
  /\ items[Target(res)].owner_id = res.user.id

UsersDeleteRoute == "DELETE /api/users/:id"

\* C16: DELETE /api/users/:id with the caller's own id is answered 400
\* "Cannot delete your own account", also for an admin, and the caller's row
\* and the items stay as they were.
SelfDeleteRefused ==
  [][ ( /\ res'.route = UsersDeleteRoute
        /\ res'.auth = "good"
        /\ res'.user.role = "admin"
        /\ Target(res') = res'.user.id )
      => /\ res'.status = 400
         /\ res'.error = "Cannot delete your own account"
         /\ users' = users
         /\ items' = items ]_vars

\* an admin that owns an item asked to delete its own account and was
\* refused
AdminSelfDeleteRefused ==
  /\ res.route = UsersDeleteRoute
  /\ res.status = 400
  /\ res.user.role = "admin"
  /\ Target(res) = res.user.id
  /\ res.user.id \in DOMAIN users
  /\ OwnedBy(res.user.id) # {}

\* C17: right after a successful DELETE /api/users/:id of principal P, P has
\* no row, no item has P as its owner, and the items of the other principals
\* are as they were.
DeleteCascades ==
  [][ ( res'.route = UsersDeleteRoute /\ res'.status = 200 )
      => /\ Target(res') \notin DOMAIN users'
         /\ \A i \in DOMAIN items' : items'[i].owner_id # Target(res')
         /\ \A i \in DOMAIN items :
              items[i].owner_id # Target(res') => ( i \in DOMAIN items' /\ items'[i] = items[i] )
         /\ \A i \in DOMAIN items' : i \in DOMAIN items ]_vars

\* a principal was deleted; an item of another principal is in the table and
\* an item created earlier is not
PrincipalDeletedItemGone ==
  /\ res.route = UsersDeleteRoute
  /\ res.status = 200
  /\ Target(res) \notin DOMAIN users
  /\ OwnedBy(res.user.id) # {}
  /\ \E i \in 1..(nextItemId - 1) : i \notin DOMAIN items

UsersPutRoute == "PUT /api/users/:id"
RegisterRoute == "POST /api/auth/register"

\* the registration bodies drawn that pass validateUser
RegValid == { body \in [email : RegEmails, password : RegPasswords] : UserValid(body) }

\* no two rows of a users table have the same email
EmailsUnique(us) == \A u, v \in DOMAIN us : us[u].email = us[v].email => u = v

\* C18: no two principals ever have the same email.  A registration with
\* valid fields whose email is taken, and an admin's PUT /api/users/:id that
\* would give an existing principal the email of another, are answered 400
\* with an error that says "already exists", and the users table stays as it
\* was.
EmailUnique ==
  [][ /\ EmailsUnique(users) /\ EmailsUnique(users')
      /\ res'.route = RegisterRoute =>
           \A body \in RegValid :
             ( /\ \E u \in DOMAIN users : users[u].email = normalizeEmail(body.email)
               /\ Register(body.email, body.password) )
             => /\ res'.status = 400
                /\ res'.error \in {"User already exists", "Email already exists"}
                /\ users' = users
      /\ ( res'.route = UsersPutRoute /\ res'.auth = "good" /\ res'.user.role = "admin" ) =>
           \A seg \in UserSegs, body \in UserBodies :
             ( /\ body.hasEmail
               /\ UserUpdateValid(body)
               /\ parseInt(seg).val \in DOMAIN users
               /\ \E u \in DOMAIN users \ {parseInt(seg).val} :
                    users[u].email = normalizeEmail(body.email)
               /\ UsersUpdate([kind |-> "good", id |-> res'.user.id, role |-> res'.user.role], seg, body) )
             => /\ res'.status = 400
                /\ res'.error = "Email already exists"
                /\ users' = users ]_vars

\* an admin asked to give a registered principal the email of another and
\* was refused
TakenEmailRefused ==
  /\ res.route = UsersPutRoute
  /\ res.status = 400
  /\ res.error = "Email already exists"
  /\ res.user.role = "admin"
  /\ Cardinality(DOMAIN users) = MaxUsers

\* C19: every principal's role is one of admin, user, auditor in every
\* state; a principal enters the table only by a registration, with role
\* user; and an admin's PUT /api/users/:id whose role is not one of the three
\* is answered 400 and leaves the users table as it was.
RoleInEnum ==
  [][ /\ \A u \in DOMAIN users' : users'[u].role \in Roles
      /\ \A u \in DOMAIN users' \ DOMAIN users :
           res'.route = RegisterRoute /\ users'[u].role = "user"
      /\ ( res'.route = UsersPutRoute /\ res'.auth = "good" /\ res'.user.role = "admin" ) =>
           \A seg \in UserSegs, body \in RoleBodies :
             ( /\ RoleValue(body) \notin Roles
               /\ UsersUpdate([kind |-> "good", id |-> res'.user.id, role |-> res'.user.role], seg, body) )
             => res'.status = 400 /\ users' = users ]_vars

-----------------------------------------------------------------------------
(* Properties of the Token Service *)

\* C21: a parsable token that differs from every issued token, in a field of
\* its payload, in its signature or in both, has been refused by verify with
\* BadSignature and no claims, whatever the time; so a token whose role was
\* changed from user to admin under the old signature is never accepted.
TamperedRejected ==
  ( out # NotVerified /\ arg.wellFormed /\ arg \notin tokens )
    => ( ~out.ok /\ out.error = "BadSignature" /\ out.claims = NoClaims )

\* the token of a user was presented with role admin and its signature as
\* issued, before its expiry, and verify refused it
RoleForgeryRefused ==
  /\ \E t \in tokens :
       /\ t.payload.role = "user"
       /\ arg = [t EXCEPT !.payload.role = "admin"]
       /\ out.at < t.payload.expiresAt
  /\ out.error = "BadSignature"

\* C22: every issued token expires TTL after it was issued; verify of an
\* issued token returns its {subjectId, role} at every time before expiresAt
\* and fails with Expired at every time from expiresAt on; and a token that
\* verify refuses as expired now is refused as expired after any step.
ExpiryRespected ==
  [][ /\ \A t \in tokens' : t.payload.expiresAt = t.payload.issuedAt + TTL
      /\ ( arg' \in tokens' /\ out' # NotVerified ) =>
           IF out'.at < arg'.payload.expiresAt
             THEN /\ out'.ok
                  /\ out'.claims = [subjectId |-> arg'.payload.subjectId,
                                    role |-> arg'.payload.role]
             ELSE ~out'.ok /\ out'.error = "Expired" /\ out'.claims = NoClaims
      /\ now' # now =>
           \A t \in tokens :
             verify(t, now).error = "Expired" => verify(t, now').error = "Expired" ]_vars

\* an issued token was verified at the very instant expiresAt and refused as
\* expired
ExpiredAtTheInstant ==
  /\ arg \in tokens
  /\ out.at = arg.payload.expiresAt
  /\ out.error = "Expired"

LoginRoute == "POST /api/auth/login"

-----------------------------------------------------------------------------
(* Properties of registration and login (SpecAuth) *)

\* the bodies drawn in SpecAuth that pass validateUser
AuthValid == { body \in [email : AuthEmails, password : AuthPasswords] : UserValid(body) }

Granted(t) == requireAuth([kind |-> "good", id |-> t.id, role |-> t.role])

RegisteredPassword(u) ==
  CHOOSE p \in AuthRegPasswords : hash(p) = users[u].password_hash

\* C25: a login that passes validateUser is answered 401 with one and the
\* same error, and no token is issued, both when the email belongs to no
\* principal and when it belongs to a principal but the password is not the
\* one that principal was created with.
LoginFailuresAlike ==
  [][ res'.route = LoginRoute =>
        \A body \in AuthValid :
          ( /\ \/ \A u \in DOMAIN users : users[u].email # normalizeEmail(body.email)
               \/ \E u \in DOMAIN users :
                    /\ users[u].email = normalizeEmail(body.email)
                    /\ body.password # RegisteredPassword(u)
            /\ LoginWith(body.email, body.password) )
          => /\ res'.status = 401
             /\ res'.error = "Invalid credentials"
             /\ tokens' = tokens ]_vars

-----------------------------------------------------------------------------
(* Properties of a request as a whole (Spec) *)

\* C26: a request is denied with the outcome of the earliest gate it fails,
\* in the order authentication, authorization, validation: without a
\* verified token the answer is 401 whatever the id and the body; a principal
\* that is not admin is answered 403 on /api/users/:id whatever the id and
\* the body; and a PUT /api/vault/:id by a principal that is not admin on an
\* existing item of another owner is answered 404 whatever the body.
GateOrder ==
  [][ /\ ( res'.route \in ProtectedRoutes /\ res'.auth # "good" ) => res'.status = 401
      /\ ( /\ res'.route \in {"GET /api/users/:id", UsersPutRoute, UsersDeleteRoute}
           /\ res'.auth = "good"
           /\ res'.user.role # "admin" ) => res'.status = 403
      /\ ( res'.route = PutRoute /\ res'.auth = "good" /\ res'.user.role # "admin" ) =>
           \A seg \in ApiSegs, body \in ApiItemBodies :
             ( /\ ~parseInt(seg).nan
               /\ parseInt(seg).val \in DOMAIN items
               /\ items[parseInt(seg).val].owner_id # res'.user.id
               /\ VaultUpdate([kind |-> "good", id |-> res'.user.id, role |-> res'.user.role],
                              seg, body) )
             => res'.status = 404 ]_vars

\* C27: the answer to GET /api/vault/:id with a verified token and a numeric
\* id is decided by the token and the items table as it is at the request,
\* not by any earlier request: 200 with the row exactly when the item is in
\* the table now and its owner_id is the token's id, 404 with no row
\* otherwise; so an id that was refused is served once the caller owns such
\* an item, and an item that was served is refused once it is deleted.
DecidedOnPresentStore ==
  [][ ( res'.route = GetRoute /\ res'.auth = "good" /\ ~parseInt(res'.seg).nan ) =>
        IF Target(res') \in DOMAIN items /\ items[Target(res')].owner_id = res'.user.id
          THEN res'.status = 200 /\ res'.rows = <<ItemRow(Target(res'))>>
          ELSE res'.status = 404 /\ res'.rows = <<>> ]_vars

\* a principal with role user asked for an item that had been created and
\* deleted, while it owns another item, and was answered 404
DeletedItemRefused ==
  /\ res.route = GetRoute
  /\ res.status = 404
  /\ res.user.role = "user"
  /\ Target(res) \in 1..(nextItemId - 1)
  /\ Target(res) \notin DOMAIN items
  /\ OwnedBy(res.user.id) # {}

\* C28: a request that is answered 400, 401, 403 or 404 leaves the users
\* table and the items table exactly as they were.
DeniedChangesNothing ==
  [][ res'.status \in {400, 401, 403, 404} => ( users' = users /\ items' = items ) ]_vars

\* a principal that is not admin asked to delete an existing item of another
\* owner, was answered 404, and the item is in the table
DeniedDeleteLeftItem ==
  /\ res.route = DeleteRoute
  /\ res.status = 404
  /\ res.user.role # "admin"
  /\ Target(res) \in DOMAIN items
  /\ items[Target(res)].owner_id # res.user.id

\* C29: in every state the owner_id of every item is the id of a row of
\* users, whatever the order in which creations, updates and deletions of
\* items and of principals are served, also when a principal that has been
\* deleted goes on using the token issued to it.
OwnersExist == \A i \in DOMAIN items : items[i].owner_id \in DOMAIN users

\* a deleted principal tried to create an item with its old token and no
\* item was inserted, while an item of another principal is in the table
DeletedPrincipalCreateRefused ==
  /\ res.route = "POST /api/vault"
  /\ res.status = 500
  /\ res.user.id \notin DOMAIN users
  /\ items # <<>>

\* C30: in every state reached from the seeded database some principal has
\* role admin.
AdminRemains == \E u \in DOMAIN users : users[u].role = "admin"

====
